---- MODULE Spec2Model ----
(***************************************************************************)
(* A model of the lazy generator pipeline of stream_events.py and of the   *)
(* synchronous page loop and live-game predicate of query.py.              *)
(*                                                                         *)
(* A pipeline is a chain of Python generators.  Position 1 is the          *)
(* innermost iterable (the paginated source, or a plain list iterator),    *)
(* positions 2..N are combinators, and position N+1 is the consumer's      *)
(* loop.  Exactly one frame runs at a time: `ctl` says which one, and what  *)
(* it was handed (a next() call from below, or an item / StopIteration /   *)
(* exception from above).                                                  *)
(***************************************************************************)
EXTENDS Integers, Sequences, FiniteSets, TLC

VARIABLES
    pipeline,   \* the chain of generators, innermost first (fixed per run)
    api,        \* what the events endpoint serves: a sequence of page bodies
    details,    \* what the detail endpoint serves for each ticker
    frames,     \* frames[i]: locals and resume point of generator i
    ctl,        \* [at, msg, val]: the running frame and what it was handed
    consumer,   \* the consumer's loop: "running", "done" or "crashed"
    inflight,   \* <<>> or <<r>>: the HTTP request being waited for
    requests,   \* log of every HTTP request issued, in order
    responses,  \* log of how each request ended: "ok" or "error"
    yielded,    \* yielded[i]: log of the items generator i has yielded
    extra,      \* next() calls the consumer made after the stream ended
    call,       \* the is_live_game_market call: arguments, locals, return
    query,      \* fetch_live_sports_events: its position and locals
    received,   \* received[i]: the objects generator i was handed, as they are now
    starts      \* length of the request log at each invocation of a traversal

vars == <<pipeline, api, details, frames, ctl, consumer, inflight, requests, responses,
          yielded, extra, call, query, received, starts>>

----------------------------------------------------------------------------
(* Python values.                                                          *)

\* Python's None (all scalar values of the model are strings).
None == "<None>"

\* bool(v) for a string-or-None value: None and "" are falsy.
Truthy(v) == v \notin {None, ""}

\* dict.get(k, default)
Get(d, k, default) == IF k \in DOMAIN d THEN d[k] ELSE default

\* {} : the dict with no keys
EmptyDict == [k \in {} |-> None]

RECURSIVE Flatten(_)
Flatten(ss) == IF ss = <<>> THEN <<>> ELSE Head(ss) \o Flatten(Tail(ss))

Prefix(s, n) == SubSeq(s, 1, IF n < Len(s) THEN n ELSE Len(s))

IsPrefix(s, t) == Len(s) <= Len(t) /\ s = SubSeq(t, 1, Len(s))

\* all sequences over S of length at most n
SeqsUpTo(S, n) == UNION {[1..k -> S] : k \in 0..n}

----------------------------------------------------------------------------
(* Bounds.                                                                 *)

MaxPages == 2        \* pages the API serves in one traversal
MaxEvents == 3       \* events the API serves in one traversal, all pages
MaxExtraPulls == 1   \* next() calls a consumer makes on an ended stream
MaxItems == 3        \* length of a list a combinator is run on
MaxRestarts == 1     \* times a traversal is invoked again in one run
MaxLimit == 2        \* largest integer limit tried

----------------------------------------------------------------------------
(* The events endpoint.                                                    *)

\* cursor tokens: page j (when not the last) returns Tokens[j]
Tokens == <<"abc", "def", "ghi", "jkl">>

\* The k pages of a traversal: page j carries events evs[j]; every page but
\* the last carries a non-empty cursor, the last carries `last`, one of the
\* ways the API omits it (no key, or an empty string).
LastCursors == {"absent", "empty"}

PageBody(evs, j, k, last) ==
    IF j < k THEN [events |-> evs[j], cursor |-> Tokens[j]]
    ELSE IF last = "absent" THEN [events |-> evs[j]]
    ELSE [events |-> evs[j], cursor |-> ""]

Pages(evs, last) == [j \in 1..Len(evs) |-> PageBody(evs, j, Len(evs), last)]

\* the page the server returns for a request's query parameters
TokenIndex(c) == CHOOSE j \in 1..Len(Tokens) : Tokens[j] = c

Server(params) ==
    IF "cursor" \in DOMAIN params THEN api[TokenIndex(params["cursor"]) + 1]
    ELSE api[1]

\* no run issues more requests than this (a guard against runaway loops)
MaxRequests == (MaxPages + 1) * (MaxEvents + 2)

----------------------------------------------------------------------------
(* Control transfer between frames.                                        *)

N == Len(pipeline)

\* frame i calls next() on the iterable below it
Pull(i) == ctl' = [at |-> i - 1, msg |-> "next", val |-> <<>>]

\* frame i yields v to the frame above it
Yield(i, v) ==
    /\ ctl' = [at |-> i + 1, msg |-> "item", val |-> <<v>>]
    /\ yielded' = [yielded EXCEPT ![i] = Append(@, v)]

\* frame i returns: StopIteration reaches the frame above
Stop(i) == ctl' = [at |-> i + 1, msg |-> "stop", val |-> <<>>]

\* an exception leaves frame i
Raise(i) == ctl' = [at |-> i + 1, msg |-> "raise", val |-> <<>>]

SetFrame(i, f) == frames' = [frames EXCEPT ![i] = f]

Kind(i) == pipeline[i].kind

----------------------------------------------------------------------------
(* fetch_from_events_list / fetch_from_event_detail                        *)

\* (mutant) the cursor parameter is set whatever the cursor
fetch_from_events_list_AlwaysCursor(cursor) == [cursor |-> cursor]

\* the query parameters fetch_from_events_list builds
fetch_from_events_list(cursor) ==
    IF Truthy(cursor) THEN [cursor |-> cursor] ELSE EmptyDict

PageRequest(cursor) ==
    [url |-> "events", ticker |-> None, params |-> fetch_from_events_list(cursor)]

\* requests.get is called: the request goes out and the caller blocks
Issue(i, r) ==
    /\ Len(requests) < MaxRequests
    /\ inflight' = <<r>>
    /\ requests' = Append(requests, r)
    /\ ctl' = [at |-> i, msg |-> "http", val |-> <<>>]

----------------------------------------------------------------------------
(* stream_from_events_list                                                 *)

\* (mutant) the cursor is read before the page's events are yielded: the
\* events of a page without a cursor are lost
SourceLoop_CursorFirst(i, data, idx) ==
    LET events == Get(data, "events", <<>>)
        cursor == Get(data, "cursor", None)
    IN  IF ~Truthy(cursor)
        THEN /\ Stop(i)
             /\ SetFrame(i, [pc |-> "done", data |-> data, idx |-> idx])
             /\ inflight' = <<>>
             /\ UNCHANGED <<requests, yielded>>
        ELSE IF idx < Len(events)
        THEN /\ Yield(i, events[idx + 1])
             /\ SetFrame(i, [pc |-> "yield", data |-> data, idx |-> idx + 1])
             /\ inflight' = <<>>
             /\ UNCHANGED requests
        ELSE /\ Issue(i, PageRequest(cursor))
             /\ SetFrame(i, [pc |-> "fetch", data |-> data, idx |-> idx])
             /\ UNCHANGED yielded

\* (mutant) look-ahead: once one event of a page is out, the next page is
\* fetched
SourceLoop_FetchesEarly(i, data, idx) ==
    LET events == Get(data, "events", <<>>)
        cursor == Get(data, "cursor", None)
    IN  IF idx < Len(events) /\ ~(idx >= 1 /\ Truthy(cursor))
        THEN /\ Yield(i, events[idx + 1])
             /\ SetFrame(i, [pc |-> "yield", data |-> data, idx |-> idx + 1])
             /\ inflight' = <<>>
             /\ UNCHANGED requests
        ELSE IF ~Truthy(cursor)
        THEN /\ Stop(i)
             /\ SetFrame(i, [pc |-> "done", data |-> data, idx |-> idx])
             /\ inflight' = <<>>
             /\ UNCHANGED <<requests, yielded>>
        ELSE /\ Issue(i, PageRequest(cursor))
             /\ SetFrame(i, [pc |-> "fetch", data |-> data, idx |-> idx])
             /\ UNCHANGED yielded

\* (mutant) `if not cursor: break` is missing: the loop always fetches again
SourceLoop_NeverBreaks(i, data, idx) ==
    LET events == Get(data, "events", <<>>)
        cursor == Get(data, "cursor", None)
    IN  IF idx < Len(events)
        THEN /\ Yield(i, events[idx + 1])
             /\ SetFrame(i, [pc |-> "yield", data |-> data, idx |-> idx + 1])
             /\ inflight' = <<>>
             /\ UNCHANGED requests
        ELSE /\ Issue(i, PageRequest(cursor))
             /\ SetFrame(i, [pc |-> "fetch", data |-> data, idx |-> idx])
             /\ UNCHANGED yielded

\* The body of the while loop from the for statement on, with `data` the
\* current page and idx events of it already yielded: yield the next event,
\* or leave the for loop, read the cursor and break or fetch again.
SourceLoop(i, data, idx) ==
    LET events == Get(data, "events", <<>>)
        cursor == Get(data, "cursor", None)
    IN  IF idx < Len(events)
        THEN /\ Yield(i, events[idx + 1])
             /\ SetFrame(i, [pc |-> "yield", data |-> data, idx |-> idx + 1])
             /\ inflight' = <<>>
             /\ UNCHANGED requests
        ELSE IF ~Truthy(cursor)
        THEN /\ Stop(i)
             /\ SetFrame(i, [pc |-> "done", data |-> data, idx |-> idx])
             /\ inflight' = <<>>
             /\ UNCHANGED <<requests, yielded>>
        ELSE /\ Issue(i, PageRequest(cursor))
             /\ SetFrame(i, [pc |-> "fetch", data |-> data, idx |-> idx])
             /\ UNCHANGED yielded

\* a generator that has returned or raised answers next() with StopIteration
Finished(i) ==
    /\ Stop(i)
    /\ UNCHANGED <<frames, inflight, requests, yielded>>

\* next() on the source generator
SourceNext ==
    LET i == ctl.at
        f == frames[i]
    IN  /\ i \in 1..N /\ Kind(i) = "source" /\ ctl.msg = "next"
        /\ CASE f.pc = "start" ->
                  /\ Issue(i, PageRequest(None))
                  /\ SetFrame(i, [f EXCEPT !.pc = "fetch"])
                  /\ UNCHANGED yielded
             [] f.pc = "yield" -> SourceLoop(i, f.data, f.idx)
             [] f.pc = "done" -> Finished(i)
        /\ UNCHANGED <<received, starts, call, query, pipeline, api, details, responses, consumer, extra>>

\* the page request returns 2xx: resp.json() is the page, the loop goes on
PageResponse ==
    LET i == ctl.at
    IN  /\ i \in 1..N /\ Kind(i) = "source" /\ ctl.msg = "http"
        /\ SourceLoop(i, Server(inflight[1].params), 0)
        /\ responses' = Append(responses, "ok")
        /\ UNCHANGED <<received, starts, call, query, pipeline, api, details, consumer, extra>>

\* the page request fails (transport error, or raise_for_status on a
\* non-2xx status): the exception leaves the generator, which is finished
PageFailure ==
    LET i == ctl.at
    IN  /\ i \in 1..N /\ Kind(i) = "source" /\ ctl.msg = "http"
        /\ Raise(i)
        /\ SetFrame(i, [frames[i] EXCEPT !.pc = "done"])
        /\ inflight' = <<>>
        /\ responses' = Append(responses, "error")
        /\ UNCHANGED <<received, starts, call, query, pipeline, api, details, consumer, extra, requests, yielded>>

----------------------------------------------------------------------------
(* What every combinator does when the iterable below it ends or raises.   *)

Combinators == {"filter", "limit", "enrich", "extract_markets", "to_summary"}

\* StopIteration from below ends the for loop (or the yield from): the
\* generator returns
UpstreamEnded ==
    LET i == ctl.at
    IN  /\ i \in 1..N /\ Kind(i) \in Combinators /\ ctl.msg = "stop"
        /\ Stop(i)
        /\ SetFrame(i, [frames[i] EXCEPT !.pc = "done"])
        /\ UNCHANGED <<received, starts, call, query, pipeline, api, details, responses, consumer, extra, inflight, requests, yielded>>

\* an exception from below is not caught anywhere: it passes through
UpstreamRaised ==
    LET i == ctl.at
    IN  /\ i \in 1..N /\ Kind(i) \in Combinators /\ ctl.msg = "raise"
        /\ Raise(i)
        /\ SetFrame(i, [frames[i] EXCEPT !.pc = "done"])
        /\ UNCHANGED <<received, starts, call, query, pipeline, api, details, responses, consumer, extra, inflight, requests, yielded>>

\* next() on a generator whose body is a plain `for item in stream` loop:
\* the loop asks the iterable below for its next item
ResumeLoop(i) ==
    IF frames[i].pc = "done" THEN Finished(i)
    ELSE /\ Pull(i)
         /\ SetFrame(i, [frames[i] EXCEPT !.pc = "run"])
         /\ UNCHANGED <<inflight, requests, yielded>>

----------------------------------------------------------------------------
(* filter, is_sports_event, is_event_ticker                                *)

is_sports_event(event) == Get(event, "category", None) = "Sports"

\* is_event_ticker(ticker)(event); ticker None matches every event
is_event_ticker(ticker, event) ==
    IF ticker = None THEN TRUE
    ELSE Get(event, "event_ticker", None) = ticker

Predicate(stage, item) ==
    CASE stage.pred = "is_sports_event" -> is_sports_event(item)
      [] stage.pred = "is_event_ticker" -> is_event_ticker(stage.ticker, item)

\* (mutant) the predicate's verdict is ignored: every item is yielded
filter_YieldsAll ==
    LET i == ctl.at
    IN  /\ i \in 1..N /\ Kind(i) = "filter" /\ ctl.msg \in {"next", "item"}
        /\ IF ctl.msg = "next" THEN ResumeLoop(i)
           ELSE /\ Yield(i, ctl.val[1])
                /\ UNCHANGED <<frames, inflight, requests>>
        /\ UNCHANGED <<received, starts, call, query, pipeline, api, details, responses, consumer, extra>>

filter ==
    LET i == ctl.at
    IN  /\ i \in 1..N /\ Kind(i) = "filter" /\ ctl.msg \in {"next", "item"}
        /\ IF ctl.msg = "next" THEN ResumeLoop(i)
           ELSE IF Predicate(pipeline[i], ctl.val[1])
           THEN /\ Yield(i, ctl.val[1])
                /\ UNCHANGED <<frames, inflight, requests>>
           ELSE /\ Pull(i)
                /\ UNCHANGED <<frames, inflight, requests, yielded>>
        /\ UNCHANGED <<received, starts, call, query, pipeline, api, details, responses, consumer, extra>>

----------------------------------------------------------------------------
(* limit                                                                   *)

\* the limit argument: <<>> is None, <<n>> is the integer n
NoLimit == <<>>

\* (mutant) `if i > limit: break`
limit_break_Strict(i, lim) == i > lim

\* `if i >= limit: break`, i being the enumerate index of the item just
\* received (the number of items received before it)
limit_break(i, lim) == i >= lim

limit ==
    LET i == ctl.at
        f == frames[i]
        lim == pipeline[i].limit
    IN  /\ i \in 1..N /\ Kind(i) = "limit" /\ ctl.msg \in {"next", "item"}
        /\ IF ctl.msg = "next" THEN ResumeLoop(i)
           ELSE IF lim = NoLimit
           THEN \* yield from stream
                /\ Yield(i, ctl.val[1])
                /\ UNCHANGED <<frames, inflight, requests>>
           ELSE IF limit_break(f.i, lim[1])
           THEN /\ Stop(i)
                /\ SetFrame(i, [f EXCEPT !.pc = "done"])
                /\ UNCHANGED <<inflight, requests, yielded>>
           ELSE /\ Yield(i, ctl.val[1])
                /\ SetFrame(i, [f EXCEPT !.i = f.i + 1])
                /\ UNCHANGED <<inflight, requests>>
        /\ UNCHANGED <<received, starts, call, query, pipeline, api, details, responses, consumer, extra>>

----------------------------------------------------------------------------
(* enrich_with_details                                                     *)

\* the request fetch_from_event_detail makes
fetch_from_event_detail(event_ticker, with_nested_markets) ==
    [url |-> "detail", ticker |-> event_ticker,
     params |-> IF with_nested_markets THEN [with_nested_markets |-> "true"]
                ELSE EmptyDict]

\* the body the detail endpoint returns: the event under the key "event",
\* its markets nested in it when asked for, beside it otherwise
DetailServer(r) ==
    LET d == details[r.ticker]
    IN  IF "with_nested_markets" \in DOMAIN r.params
        THEN [event |-> [event_ticker |-> r.ticker, category |-> d.category,
                         markets |-> d.markets]]
        ELSE [event |-> [event_ticker |-> r.ticker, category |-> d.category],
              markets |-> d.markets]

\* (mutant) `if event_ticker is not None:`
has_ticker_NotNone(event) == Get(event, "event_ticker", None) # None

\* `if event_ticker:`
has_ticker(event) == Truthy(Get(event, "event_ticker", None))

\* (mutant) a ticker that was fetched before is answered from a cache
enrich_with_details_Cached ==
    LET i == ctl.at
    IN  /\ i \in 1..N /\ Kind(i) = "enrich" /\ ctl.msg \in {"next", "item"}
        /\ IF ctl.msg = "next" THEN ResumeLoop(i)
           ELSE IF has_ticker(ctl.val[1])
           THEN LET r == fetch_from_event_detail(ctl.val[1].event_ticker,
                                                 pipeline[i].nested)
                IN  IF \E j \in 1..Len(responses) : requests[j] = r /\ responses[j] = "ok"
                    THEN /\ Yield(i, DetailServer(r))
                         /\ UNCHANGED <<frames, inflight, requests>>
                    ELSE /\ Issue(i, r)
                         /\ UNCHANGED <<frames, yielded>>
           ELSE /\ Pull(i)
                /\ UNCHANGED <<frames, inflight, requests, yielded>>
        /\ UNCHANGED <<received, starts, call, query, pipeline, api, details, responses, consumer, extra>>

enrich_with_details ==
    LET i == ctl.at
    IN  /\ i \in 1..N /\ Kind(i) = "enrich" /\ ctl.msg \in {"next", "item"}
        /\ IF ctl.msg = "next" THEN ResumeLoop(i)
           ELSE IF has_ticker(ctl.val[1])
           THEN /\ Issue(i, fetch_from_event_detail(ctl.val[1].event_ticker,
                                                    pipeline[i].nested))
                /\ UNCHANGED <<frames, yielded>>
           ELSE /\ Pull(i)
                /\ UNCHANGED <<frames, inflight, requests, yielded>>
        /\ UNCHANGED <<received, starts, call, query, pipeline, api, details, responses, consumer, extra>>

\* the detail request returns 2xx: its body is yielded
DetailResponse ==
    LET i == ctl.at
    IN  /\ i \in 1..N /\ Kind(i) = "enrich" /\ ctl.msg = "http"
        /\ Yield(i, DetailServer(inflight[1]))
        /\ inflight' = <<>>
        /\ responses' = Append(responses, "ok")
        /\ UNCHANGED <<received, starts, call, query, pipeline, api, details, consumer, extra, frames, requests>>

\* (mutant) the failed detail fetch is caught and the event skipped
DetailFailure_Skips ==
    LET i == ctl.at
    IN  /\ i \in 1..N /\ Kind(i) = "enrich" /\ ctl.msg = "http"
        /\ Pull(i)
        /\ inflight' = <<>>
        /\ responses' = Append(responses, "error")
        /\ UNCHANGED <<received, starts, call, query, pipeline, api, details, consumer, extra,
                       frames, requests, yielded>>

\* the detail request fails: the exception leaves the generator
DetailFailure ==
    LET i == ctl.at
    IN  /\ i \in 1..N /\ Kind(i) = "enrich" /\ ctl.msg = "http"
        /\ Raise(i)
        /\ SetFrame(i, [frames[i] EXCEPT !.pc = "done"])
        /\ inflight' = <<>>
        /\ responses' = Append(responses, "error")
        /\ UNCHANGED <<received, starts, call, query, pipeline, api, details, consumer, extra, requests, yielded>>

----------------------------------------------------------------------------
(* extract_markets                                                         *)

\* (mutant) the item is never unwrapped
event_data_NoUnwrap(item) == item

\* item.get("event", item)
event_data(item) == Get(item, "event", item)

\* Objects. A market dict that reached the generator inside the p-th item
\* it received is named by p and its place k in the item's markets list;
\* an object created by the generator is new.
NewObject == [new |-> TRUE, item |-> 0, k |-> 0]

MarketRef(p, k) == [new |-> FALSE, item |-> p, k |-> k]

\* (mutant) enriched_market = market: the market itself, not a copy
dict_Alias(market) == market

\* dict(market): a new dict
dict(market) == NewObject

\* obj[key] = val, seen from the received items rcv: a new object is none
\* of theirs, a received market changes where it lives
SetItem(rcv, obj, key, val) ==
    IF obj.new THEN rcv
    ELSE LET item == rcv[obj.item]
             ed == event_data(item)
             m == ed.markets[obj.k]
             m2 == [x \in DOMAIN m \cup {key} |-> IF x = key THEN val ELSE m[x]]
             ed2 == [ed EXCEPT !.markets = [@ EXCEPT ![obj.k] = m2]]
         IN  [rcv EXCEPT ![obj.item] =
                 IF "event" \in DOMAIN item THEN [item EXCEPT !.event = ed2] ELSE ed2]

\* the contents of dict(market) once the key event_category is set
enriched_market(market, event_category) ==
    [k \in DOMAIN market \cup {"event_category"} |->
        IF k = "event_category" THEN event_category ELSE market[k]]

\* the inner loop over the markets of the current event, k of them already
\* yielded: yield the next one, or go back to the outer loop. rcv holds the
\* items received so far; the current event is its last one, and the
\* assignment of event_category goes to the object dict(market) returns
MarketLoop(i, rcv, markets, category, k) ==
    IF k < Len(markets)
    THEN LET obj == dict(MarketRef(Len(rcv), k + 1))
         IN  /\ Yield(i, enriched_market(markets[k + 1], category))
             /\ received' = [received EXCEPT ![i] =
                                SetItem(rcv, obj, "event_category", category)]
             /\ SetFrame(i, [pc |-> "yield", markets |-> markets,
                             category |-> category, k |-> k + 1,
                             enriched_market |-> obj])
    ELSE /\ Pull(i)
         /\ received' = [received EXCEPT ![i] = rcv]
         /\ SetFrame(i, [pc |-> "run", markets |-> <<>>, category |-> None, k |-> 0,
                         enriched_market |-> NewObject])
         /\ UNCHANGED yielded

extract_markets ==
    LET i == ctl.at
        f == frames[i]
    IN  /\ i \in 1..N /\ Kind(i) = "extract_markets" /\ ctl.msg \in {"next", "item"}
        /\ IF ctl.msg = "item"
           THEN LET ed == event_data(ctl.val[1])
                IN  MarketLoop(i, Append(received[i], ctl.val[1]),
                               Get(ed, "markets", <<>>), Get(ed, "category", None), 0)
           ELSE IF f.pc = "done"
           THEN /\ Stop(i)
                /\ UNCHANGED <<frames, yielded, received>>
           ELSE MarketLoop(i, received[i], f.markets, f.category, f.k)
        /\ UNCHANGED <<starts, call, query, pipeline, api, details, responses, consumer, extra, inflight, requests>>

----------------------------------------------------------------------------
(* to_summary                                                              *)

\* (mutant) an output field whose input field is missing is left out
summary_SkipsMissing(item, summary_fields) ==
    [o \in {f \in DOMAIN summary_fields : summary_fields[f] \in DOMAIN item} |->
        item[summary_fields[o]]]

\* summary = {}; summary[output_field] = item.get(input_field) for every
\* entry of summary_fields
summary(item, summary_fields) ==
    [o \in DOMAIN summary_fields |-> Get(item, summary_fields[o], None)]

to_summary ==
    LET i == ctl.at
    IN  /\ i \in 1..N /\ Kind(i) = "to_summary" /\ ctl.msg \in {"next", "item"}
        /\ IF ctl.msg = "next"
           THEN /\ ResumeLoop(i)
                /\ UNCHANGED received
           ELSE /\ Yield(i, summary(ctl.val[1], pipeline[i].summary_fields))
                /\ received' = [received EXCEPT ![i] = Append(@, ctl.val[1])]
                /\ UNCHANGED <<frames, inflight, requests>>
        /\ UNCHANGED <<starts, call, query, pipeline, api, details, responses, consumer, extra>>

----------------------------------------------------------------------------
(* iter(list): the innermost iterable when a combinator is run on a list   *)

ListNext ==
    LET i == ctl.at
        f == frames[i]
        items == pipeline[i].items
    IN  /\ i \in 1..N /\ Kind(i) = "list" /\ ctl.msg = "next"
        /\ IF f.pos < Len(items)
           THEN /\ Yield(i, items[f.pos + 1])
                /\ SetFrame(i, [f EXCEPT !.pos = f.pos + 1])
           ELSE /\ Stop(i)
                /\ UNCHANGED <<frames, yielded>>
        /\ UNCHANGED <<received, starts, call, query, pipeline, api, details, responses, consumer, extra, inflight, requests>>

----------------------------------------------------------------------------
(* The consumer: `for market in stream: print(...)`                        *)

\* the loop asks for the next item, takes it, or ends on StopIteration or
\* on an exception (a run of fetch_live_sports_events has no such loop)
ConsumerStep ==
    /\ N >= 1
    /\ ctl.at = N + 1 /\ consumer = "running"
    /\ CASE ctl.msg \in {"start", "item"} ->
              /\ Pull(N + 1)
              /\ UNCHANGED consumer
         [] ctl.msg = "stop" ->
              /\ consumer' = "done"
              /\ ctl' = [ctl EXCEPT !.msg = "idle"]
         [] ctl.msg = "raise" ->
              /\ consumer' = "crashed"
              /\ ctl' = [ctl EXCEPT !.msg = "idle"]
    /\ UNCHANGED <<received, starts, call, query, pipeline, api, details, responses, frames, inflight, requests, yielded, extra>>

\* a consumer that calls next() again on a stream that has ended
ConsumerExtraPull ==
    /\ ctl.at = N + 1 /\ consumer # "running"
    /\ ctl.msg \in {"idle", "stop"}
    /\ extra < MaxExtraPulls
    /\ extra' = extra + 1
    /\ Pull(N + 1)
    /\ UNCHANGED <<received, starts, call, query, pipeline, api, details, responses, frames, consumer, inflight, requests, yielded>>

----------------------------------------------------------------------------
(* parse_ts and is_live_game_market (query.py)                             *)

\* A timestamp field value is modelled by its textual shape and, when the
\* text denotes an instant, that instant in milliseconds:
\*   "None"      JSON null            "empty"     the empty string
\*   "seconds"   2025-11-04T10:00:00Z (matches %Y-%m-%dT%H:%M:%SZ)
\*   "fraction"  2025-11-04T10:00:00.250Z (matches %Y-%m-%dT%H:%M:%S.%fZ)
\*   "offset"    2025-11-04T10:00:00+00:00 (matches neither format)
\*   "garbage"   any other text
Ts(form, at) == [form |-> form, at |-> at]

NoneTs == Ts("None", 0)

\* market.get(key) for a timestamp key
GetTs(market, key) == IF key \in DOMAIN market THEN market[key] ELSE NoneTs

\* datetime.strptime(ts_str, fmt): the datetime, or ValueError
strptime(ts, fmt) ==
    IF ts.form = fmt THEN [kind |-> "datetime", at |-> ts.at]
    ELSE [kind |-> "ValueError", at |-> 0]

NoDatetime == [kind |-> "None", at |-> 0]

\* (mutant) only the first format is tried and its ValueError not caught
parse_ts_Uncaught(ts) ==
    IF ts.form \in {"None", "empty"} THEN [kind |-> "None", at |-> 0]
    ELSE strptime(ts, "seconds")

\* parse_ts: None for a falsy argument; else the first format that parses;
\* a ValueError is caught and the next format tried; None when none parses
parse_ts(ts) ==
    IF ts.form \in {"None", "empty"} THEN NoDatetime
    ELSE IF strptime(ts, "seconds").kind # "ValueError" THEN strptime(ts, "seconds")
    ELSE IF strptime(ts, "fraction").kind # "ValueError" THEN strptime(ts, "fraction")
    ELSE NoDatetime

\* a or b for parse results: a when a is a datetime (datetimes are truthy)
\* or an exception in flight, else b
OrElse(a, b) == IF a.kind = "None" THEN b ELSE a

\* (mutant) latest-expiration is tried before expected-expiration
resolve_exp_LatestFirst(market) ==
    OrElse(parse_ts(GetTs(market, "latest_expiration_time")),
           OrElse(parse_ts(GetTs(market, "expected_expiration_time")),
                  parse_ts(GetTs(market, "expiration_time"))))

\* the resolved expiration time
resolve_exp(market) ==
    OrElse(parse_ts(GetTs(market, "expected_expiration_time")),
           OrElse(parse_ts(GetTs(market, "latest_expiration_time")),
                  parse_ts(GetTs(market, "expiration_time"))))

\* str.lower() on the status values of the model
Lower(s) ==
    CASE s = "OPEN" -> "open"
      [] s = "Active" -> "active"
      [] s = "CLOSED" -> "closed"
      [] OTHER -> s

\* (market.get("status") or "").lower()
status_of(market) ==
    LET v == Get(market, "status", None)
    IN  Lower(IF Truthy(v) THEN v ELSE "")

\* `status not in ("open", "active") or (result and result != "")`
not_tradeable(market) ==
    \/ status_of(market) \notin {"open", "active"}
    \/ LET result == Get(market, "result", None)
       IN  Truthy(result) /\ result # ""

MsPerHour == 3600 * 1000

\* hours are rationals [num, den]: x ms >= h hours, x ms <= h hours
AtLeastHours(ms, h) == ms * h.den >= h.num * MsPerHour
AtMostHours(ms, h) == ms * h.den <= h.num * MsPerHour

\* (mutant) the upper bound of the window is excluded
in_window_Strict(open_time, exp, now_utc, max_hours_until_exp, min_hours_since_open) ==
    /\ AtLeastHours(now_utc - open_time, min_hours_since_open)
    /\ 0 <= exp - now_utc
    /\ ~AtLeastHours(exp - now_utc, max_hours_until_exp)

\* the final return expression
in_window(open_time, exp, now_utc, max_hours_until_exp, min_hours_since_open) ==
    /\ AtLeastHours(now_utc - open_time, min_hours_since_open)
    /\ 0 <= exp - now_utc
    /\ AtMostHours(exp - now_utc, max_hours_until_exp)

Returns(v, open_time, exp) ==
    [kind |-> "return", value |-> v, open_time |-> open_time, exp |-> exp]

Raises(open_time, exp) ==
    [kind |-> "raise", value |-> FALSE, open_time |-> open_time, exp |-> exp]

\* is_live_game_market: how the call ends, with the locals open_time and exp
is_live_game_market(market, now_utc, max_hours_until_exp, min_hours_since_open) ==
    IF not_tradeable(market) THEN Returns(FALSE, NoDatetime, NoDatetime)
    ELSE LET open_time == parse_ts(GetTs(market, "open_time"))
             exp == resolve_exp(market)
         IN  IF open_time.kind = "ValueError" \/ exp.kind = "ValueError"
             THEN Raises(open_time, exp)
             ELSE IF open_time.kind = "None" \/ exp.kind = "None"
             THEN Returns(FALSE, open_time, exp)
             ELSE Returns(in_window(open_time.at, exp.at, now_utc,
                                    max_hours_until_exp, min_hours_since_open),
                          open_time, exp)

\* default thresholds of is_live_game_market
DefaultMaxHoursUntilExp == [num |-> 4, den |-> 1]
DefaultMinHoursSinceOpen == [num |-> 1, den |-> 2]

NoCall == [pc |-> "none"]

\* a caller evaluates is_live_game_market on the arguments of `call`
CallIsLive ==
    /\ call.pc = "called"
    /\ call' = [call EXCEPT
                  !.pc = "returned",
                  !.out = is_live_game_market(call.market, call.now_utc,
                                              call.max_hours_until_exp,
                                              call.min_hours_since_open)]
    /\ UNCHANGED <<received, starts, pipeline, api, details, frames, ctl, consumer, inflight,
                   requests, responses, yielded, extra, query>>

----------------------------------------------------------------------------
(* fetch_live_sports_events (query.py)                                     *)

\* the instant the function reads the clock, in milliseconds
NowT == 100 * MsPerHour

NoQuery == [pc |-> "none"]

\* the params dict as first built
initial_params(now_ts) ==
    [status |-> "open", limit |-> 200, with_nested_markets |-> TRUE,
     min_close_ts |-> now_ts]

\* (mutant) the cursor is not stored in params
with_cursor_Dropped(params, cursor) == params

\* params["cursor"] = cursor
with_cursor(params, cursor) ==
    [k \in DOMAIN params \cup {"cursor"} |-> IF k = "cursor" THEN cursor ELSE params[k]]

\* any(is_live_game_market(m, now_utc) for m in markets)
has_live_market(event, now_utc) ==
    LET markets == Get(event, "markets", <<>>)
    IN  \E j \in 1..Len(markets) :
           is_live_game_market(markets[j], now_utc, DefaultMaxHoursUntilExp,
                               DefaultMinHoursSinceOpen).value

\* the events of a page that are appended to sports_events
keeps(event, now_utc) ==
    /\ Get(event, "category", None) = "Sports"
    /\ has_live_market(event, now_utc)

\* (mutant) the clock is read again wherever now_utc is used
query_now_Reread(q) == q.clock

\* now_utc, the local assigned once when the function is entered
query_now(q) == q.now_utc

\* the locals of fetch_live_sports_events once the clock, at instant now, is
\* read and params built
QueryEntered(now) ==
    [pc |-> "get", now_utc |-> now, clock |-> now,
     params |-> initial_params(now \div 1000),
     sports_events |-> <<>>]

\* session.get(BASE_URL, params=params, timeout=30) is called
QueryGet ==
    /\ query.pc = "get"
    /\ Len(requests) < MaxRequests
    /\ inflight' = <<[url |-> "events", ticker |-> None, params |-> query.params]>>
    /\ requests' = Append(requests, inflight'[1])
    /\ query' = [query EXCEPT !.pc = "http"]
    /\ UNCHANGED <<received, starts, pipeline, api, details, frames, ctl, consumer, responses,
                   yielded, extra, call>>

\* the request returns 2xx: the page's live sports events are appended and
\* the loop breaks or goes on with the page's cursor
QueryResponse ==
    /\ query.pc = "http"
    /\ LET data == Server(inflight[1].params)
           events == Get(data, "events", <<>>)
           cursor == Get(data, "cursor", None)
           kept == SelectSeq(events, LAMBDA e : keeps(e, query_now(query)))
       IN  query' = [query EXCEPT
                       !.sports_events = @ \o kept,
                       !.pc = IF Truthy(cursor) THEN "get" ELSE "returned",
                       !.params = IF Truthy(cursor) THEN with_cursor(@, cursor) ELSE @]
    /\ inflight' = <<>>
    /\ responses' = Append(responses, "ok")
    /\ UNCHANGED <<received, starts, pipeline, api, details, frames, ctl, consumer, requests,
                   yielded, extra, call>>

\* the request fails or raise_for_status raises: the exception leaves the
\* function
QueryFailure ==
    /\ query.pc = "http"
    /\ query' = [query EXCEPT !.pc = "raised"]
    /\ inflight' = <<>>
    /\ responses' = Append(responses, "error")
    /\ UNCHANGED <<received, starts, pipeline, api, details, frames, ctl, consumer, requests,
                   yielded, extra, call>>

\* time passes while fetch_live_sports_events runs (one hour, once per call)
ClockTick ==
    /\ query.pc \in {"get", "http"}
    /\ query.clock = query.now_utc
    /\ query' = [query EXCEPT !.clock = @ + MsPerHour]
    /\ UNCHANGED <<received, starts, pipeline, api, details, frames, ctl, consumer, inflight,
                   requests, responses, yielded, extra, call>>

\* fetch_live_sports_events is called again after it returned or raised
QueryRestart ==
    /\ query.pc \in {"returned", "raised"}
    /\ Len(starts) <= MaxRestarts
    /\ query' = QueryEntered(query.clock)
    /\ starts' = Append(starts, Len(requests))
    /\ UNCHANGED <<received, pipeline, api, details, frames, ctl, consumer, inflight,
                   requests, responses, yielded, extra, call>>

----------------------------------------------------------------------------
(* Initial frames.                                                         *)

Frame0(stage) ==
    CASE stage.kind = "source" -> [pc |-> "start", data |-> EmptyDict, idx |-> 0]
      [] stage.kind = "list" -> [pos |-> 0]
      [] stage.kind = "limit" -> [pc |-> "start", i |-> 0]
      [] stage.kind = "extract_markets" ->
            [pc |-> "start", markets |-> <<>>, category |-> None, k |-> 0,
             enriched_market |-> NewObject]
      [] OTHER -> [pc |-> "start"]

InitBase(p, a, d) ==
    /\ pipeline = p
    /\ api = a
    /\ details = d
    /\ frames = [i \in 1..Len(p) |-> Frame0(p[i])]
    /\ ctl = [at |-> Len(p) + 1, msg |-> "start", val |-> <<>>]
    /\ consumer = "running"
    /\ inflight = <<>>
    /\ requests = <<>>
    /\ responses = <<>>
    /\ yielded = [i \in 1..Len(p) |-> <<>>]
    /\ extra = 0
    /\ received = [i \in 1..Len(p) |-> <<>>]
    /\ starts = <<0>>

InitRun(p, a, d) == InitBase(p, a, d) /\ call = NoCall /\ query = NoQuery

\* the consumer drops the stream it holds, however far it got, and builds
\* the pipeline anew: every generator function is invoked again
PipelineRestart ==
    /\ N >= 1 /\ ctl.at = N + 1
    /\ Len(starts) <= MaxRestarts
    /\ frames' = [i \in 1..N |-> Frame0(pipeline[i])]
    /\ ctl' = [at |-> N + 1, msg |-> "start", val |-> <<>>]
    /\ consumer' = "running"
    /\ starts' = Append(starts, Len(requests))
    /\ UNCHANGED <<received, call, query, pipeline, api, details, inflight, requests,
                   responses, yielded, extra>>

----------------------------------------------------------------------------
(* The source alone: for event in stream_from_events_list()                *)

\* event records the endpoint serves
NoDetails == EmptyDict

Ev(ticker, category) == [event_ticker |-> ticker, category |-> category]

SourceEvents == {Ev("T1", "Sports"), Ev("T2", "Other")}

\* the ways to serve at most t events over E in exactly k pages
RECURSIVE PageLists(_, _, _)
PageLists(E, k, t) ==
    IF k = 0 THEN {<<>>}
    ELSE UNION {{<<p>> \o r : p \in [1..n -> E], r \in PageLists(E, k - 1, t - n)} :
                  n \in 0..t}

ApiOver(E, lasts) ==
    {Pages(evs, last) :
        evs \in UNION {PageLists(E, k, MaxEvents) : k \in 1..MaxPages},
        last \in lasts}

InitSource ==
    \E a \in ApiOver(SourceEvents, LastCursors) : InitRun(<<[kind |-> "source"]>>, a, NoDetails)

NextSource ==
    \/ SourceNext
    \/ PageResponse
    \/ PageFailure
    \/ ConsumerStep
    \/ ConsumerExtraPull

SpecSource == InitSource /\ [][NextSource]_vars

\* the events of every page, in page order
AllEvents == Flatten([j \in 1..Len(api) |-> Get(api[j], "events", <<>>)])

PageFetches == SelectSeq(requests, LAMBDA r : r.url = "events")

\* C1: a traversal of the source against an API of k pages (a non-empty
\* cursor on the first k-1, none on the k-th) never issues more than k page
\* fetches and yields events only in page order then API order; when it ends
\* normally it has issued exactly k page fetches and yielded every event of
\* every page.
C1_TraversalFetchesEachPageOnce ==
    /\ Len(PageFetches) <= Len(api)
    /\ IsPrefix(yielded[1], AllEvents)
    /\ consumer = "done" =>
          /\ Len(PageFetches) = Len(api)
          /\ yielded[1] = AllEvents

\* cursor "abc" then no cursor, both pages non-empty and different, traversed
\* to the end in two fetches
C1_Witness ==
    /\ consumer = "done"
    /\ Len(api) = 2
    /\ api[1].cursor = "abc"
    /\ Len(api[1].events) = 2 /\ api[1].events[1] # api[1].events[2]
    /\ Len(api[2].events) = 1
    /\ Len(requests) = 2
    /\ Len(yielded[1]) = 3

----------------------------------------------------------------------------
(* limit run on a list: for x in limit(iter(items), n)                     *)

Items == {"a", "b"}

Limits == {NoLimit} \cup {<<n>> : n \in 0..MaxLimit}

InitLimit ==
    \E items \in SeqsUpTo(Items, MaxItems), lim \in Limits :
        InitRun(<<[kind |-> "list", items |-> items],
                  [kind |-> "limit", limit |-> lim]>>, <<>>, NoDetails)

NextLimit ==
    \/ ListNext
    \/ limit
    \/ UpstreamEnded
    \/ ConsumerStep
    \/ ConsumerExtraPull

SpecLimit == InitLimit /\ [][NextLimit]_vars

\* C2: limit(seq, n) never pulls more than n items from the iterable below
\* it, whatever the consumer does.
C2_LimitPullsAtMostN ==
    pipeline[2].limit # NoLimit => Len(yielded[1]) <= pipeline[2].limit[1]

\* what does hold: at most one item beyond the n yielded is pulled
C2_LimitPullsAtMostNPlusOne ==
    pipeline[2].limit # NoLimit => Len(yielded[1]) <= pipeline[2].limit[1] + 1

Min(a, b) == IF a < b THEN a ELSE b

\* C3: a fully consumed limit(seq, n), n >= 0, has yielded exactly the first
\* min(n, len(seq)) items of seq in order, and every item of seq when n is
\* None; before that it has yielded a prefix of them.
C3_LimitYieldsFirstN ==
    LET items == pipeline[1].items
        lim == pipeline[2].limit
        want == IF lim = NoLimit THEN items ELSE Prefix(items, lim[1])
    IN  /\ IsPrefix(yielded[2], want)
        /\ consumer = "done" =>
              /\ yielded[2] = want
              /\ lim # NoLimit => Len(yielded[2]) = Min(lim[1], Len(items))

\* a limit of 2 on <<a, b, a>> fully consumed
C3_Witness ==
    /\ consumer = "done"
    /\ pipeline[1].items = <<"a", "b", "a">>
    /\ pipeline[2].limit = <<2>>
    /\ yielded[2] = <<"a", "b">>

----------------------------------------------------------------------------
(* enrich_with_details run on a list of events                             *)

Tickers == {"T1", "T2"}

\* a market record
Mkt(ticker) == [ticker |-> ticker]

\* a market that already has an event_category key
StaleMkt(ticker) == [ticker |-> ticker, event_category |-> "Stale"]

\* what the detail endpoint knows of each ticker
Details == [t \in Tickers |->
              IF t = "T1"
              THEN [category |-> "Sports", markets |-> <<Mkt("M1"), StaleMkt("M2")>>]
              ELSE [category |-> "Other", markets |-> <<>>]]

\* events with a ticker, with an empty one, with a null one, with none
EnrichEvents ==
    {Ev("T1", "Sports"), Ev("T2", "Sports"), Ev("", "Sports"),
     Ev(None, "Sports"), [category |-> "Sports"]}

InitEnrich ==
    \E items \in SeqsUpTo(EnrichEvents, MaxItems), nested \in BOOLEAN :
        InitRun(<<[kind |-> "list", items |-> items],
                  [kind |-> "enrich", nested |-> nested]>>, <<>>, Details)

NextEnrich ==
    \/ ListNext
    \/ enrich_with_details
    \/ DetailResponse
    \/ DetailFailure
    \/ UpstreamEnded
    \/ ConsumerStep
    \/ ConsumerExtraPull

SpecEnrich == InitEnrich /\ [][NextEnrich]_vars

\* the items frame i has taken from the frame below and dealt with
Taken(i) ==
    IF ctl.at = i /\ ctl.msg = "item"
    THEN SubSeq(yielded[i - 1], 1, Len(yielded[i - 1]) - 1)
    ELSE yielded[i - 1]

NonEmptyTicker(e) == "event_ticker" \in DOMAIN e /\ e.event_ticker \notin {None, ""}

DetailFetches == SelectSeq(requests, LAMBDA r : r.url = "detail")

\* the detail requests that returned a body
Returned ==
    LET idx == {j \in 1..Len(requests) :
                   requests[j].url = "detail" /\ j <= Len(responses)
                   /\ responses[j] = "ok"}
        RECURSIVE Pick(_)
        Pick(j) == IF j > Len(requests) THEN <<>>
                   ELSE IF j \in idx THEN <<requests[j]>> \o Pick(j + 1)
                   ELSE Pick(j + 1)
    IN  Pick(1)

\* C6: enrich never calls the Detail Fetcher for an event whose ticker is
\* absent, null or empty and yields nothing for it; the detail fetches are
\* exactly those of the non-empty tickers of the events taken so far, in
\* input order, one each; the records yielded are exactly the bodies of the
\* fetches that returned; an event without a ticker raises no error (enrich
\* only fails when a detail fetch fails); and a run that ends normally has
\* yielded one record per input event with a non-empty ticker.
C6_EnrichSkipsEmptyTickers ==
    LET with == SelectSeq(Taken(2), NonEmptyTicker)
        all == SelectSeq(pipeline[1].items, NonEmptyTicker)
    IN  /\ \A j \in 1..Len(DetailFetches) : DetailFetches[j].ticker \notin {None, ""}
        /\ Len(DetailFetches) = Len(with)
        /\ \A j \in 1..Len(with) : DetailFetches[j].ticker = with[j].event_ticker
        /\ Len(yielded[2]) = Len(Returned)
        /\ \A j \in 1..Len(Returned) : yielded[2][j] = DetailServer(Returned[j])
        /\ consumer = "crashed" => \E j \in 1..Len(responses) : responses[j] = "error"
        /\ consumer = "done" =>
              /\ Len(yielded[2]) = Len(all)
              /\ \A j \in 1..Len(all) :
                    yielded[2][j].event.event_ticker = all[j].event_ticker

\* <<no ticker, T1, empty ticker>> fully consumed: one fetch, one record
C6_Witness ==
    /\ consumer = "done"
    /\ pipeline[1].items = <<[category |-> "Sports"], Ev("T1", "Sports"), Ev("", "Sports")>>
    /\ Len(requests) = 1
    /\ Len(yielded[2]) = 1

----------------------------------------------------------------------------
(* extract_markets run on a list of items                                  *)

Markets2 == <<Mkt("M1"), StaleMkt("M2")>>

\* an event with markets, the same wrapped, an event with one market and no
\* category, events with no markets (empty list, no key), and a detail body
\* whose markets lie beside the event
ExtractItems ==
    {[category |-> "Sports", markets |-> Markets2],
     [event |-> [category |-> "Other", markets |-> Markets2]],
     [markets |-> <<Mkt("M3")>>],
     [category |-> "Sports", markets |-> <<>>],
     [event |-> [category |-> "Sports"]],
     [event |-> [category |-> "Sports"], markets |-> <<Mkt("M4")>>]}

InitExtract ==
    \E items \in SeqsUpTo(ExtractItems, MaxItems) :
        InitRun(<<[kind |-> "list", items |-> items],
                  [kind |-> "extract_markets"]>>, <<>>, NoDetails)

NextExtract ==
    \/ ListNext
    \/ extract_markets
    \/ UpstreamEnded
    \/ ConsumerStep
    \/ ConsumerExtraPull

SpecExtract == InitExtract /\ [][NextExtract]_vars

\* the event of an item: the item itself, or what it wraps
EventOf(item) == IF "event" \in DOMAIN item THEN item.event ELSE item

MarketsOf(item) ==
    IF "markets" \in DOMAIN EventOf(item) THEN EventOf(item).markets ELSE <<>>

CategoryOf(item) ==
    IF "category" \in DOMAIN EventOf(item) THEN EventOf(item).category ELSE None

\* the parent item of each expected output record, in order
RECURSIVE Parents(_)
Parents(items) ==
    IF items = <<>> THEN <<>>
    ELSE [j \in 1..Len(MarketsOf(Head(items))) |-> <<Head(items), j>>]
         \o Parents(Tail(items))

\* C7: extract_markets yields, item by item in input order, one record per
\* market of the item's event (the item itself or what it wraps under
\* "event") in the markets' order; each record has the market's fields and
\* the parent event's category under event_category; an event with zero or
\* no markets yields nothing.
C7_ExtractOnePerMarket ==
    LET want == Parents(pipeline[1].items)
        got == yielded[2]
    IN  /\ Len(got) <= Len(want)
        /\ consumer = "done" => Len(got) = Len(want)
        /\ \A j \in 1..Len(got) :
              LET m == MarketsOf(want[j][1])[want[j][2]]
              IN  /\ DOMAIN got[j] = DOMAIN m \cup {"event_category"}
                  /\ got[j].event_category = CategoryOf(want[j][1])
                  /\ \A k \in DOMAIN m \ {"event_category"} : got[j][k] = m[k]

\* a wrapped event with two markets between two events with none
C7_Witness ==
    /\ consumer = "done"
    /\ pipeline[1].items =
          <<[category |-> "Sports", markets |-> <<>>],
            [event |-> [category |-> "Other", markets |-> Markets2]],
            [markets |-> <<Mkt("M3")>>]>>
    /\ Len(yielded[2]) = 3
    /\ yielded[2][2].event_category = "Other"
    /\ yielded[2][3].event_category = None

----------------------------------------------------------------------------
(* The assembled pipeline of stream_events.py                              *)

\* stream_from_events_list -> filter(is_sports_event) ->
\* filter(is_event_ticker(target)) -> limit(max_events) ->
\* enrich_with_details(with_nested_markets=True) -> extract_markets
MainPipeline(target, max_events) ==
    <<[kind |-> "source"],
      [kind |-> "filter", pred |-> "is_sports_event"],
      [kind |-> "filter", pred |-> "is_event_ticker", ticker |-> target],
      [kind |-> "limit", limit |-> max_events],
      [kind |-> "enrich", nested |-> TRUE],
      [kind |-> "extract_markets"]>>

PipeEvents == {Ev("T1", "Sports"), Ev("T2", "Other"), [category |-> "Sports"]}

InitPipe ==
    \E a \in ApiOver(PipeEvents, {"absent"}), target \in {None, "T1"},
       lim \in {NoLimit} \cup {<<n>> : n \in 0..MaxLimit} :
        InitRun(MainPipeline(target, lim), a, Details)

NextPipe ==
    \/ SourceNext
    \/ PageResponse
    \/ PageFailure
    \/ filter
    \/ limit
    \/ enrich_with_details
    \/ DetailResponse
    \/ DetailFailure
    \/ extract_markets
    \/ UpstreamEnded
    \/ UpstreamRaised
    \/ ConsumerStep
    \/ ConsumerExtraPull

\* markets as the events endpoint nests them
LiveMkt ==
    [ticker |-> "M1", status |-> "open",
     open_time |-> Ts("seconds", NowT - MsPerHour),
     expiration_time |-> Ts("seconds", NowT + 2 * MsPerHour)]

EarlyMkt ==
    [ticker |-> "M2", status |-> "open",
     open_time |-> Ts("fraction", NowT - MsPerHour \div 10),
     expiration_time |-> Ts("seconds", NowT + 2 * MsPerHour)]

QEv(ticker, category, markets) ==
    [event_ticker |-> ticker, category |-> category, markets |-> markets]

QueryEvents ==
    {QEv("T1", "Sports", <<EarlyMkt, LiveMkt>>),
     QEv("T2", "Sports", <<LiveMkt>>),
     QEv("T3", "Sports", <<EarlyMkt>>),
     QEv("T4", "Other", <<LiveMkt>>),
     Ev("T5", "Sports")}

\* the function is entered: the clock is read and params built
QueryStart(a) ==
    /\ InitBase(<<>>, a, NoDetails)
    /\ call = NoCall
    /\ query = QueryEntered(NowT)

InitQuery == \E a \in ApiOver(QueryEvents, LastCursors) : QueryStart(a)

NextQuery ==
    \/ QueryGet
    \/ QueryResponse
    \/ QueryFailure

\* the two programs: the pipeline of stream_events.py, and
\* fetch_live_sports_events of query.py
Init == InitPipe \/ InitQuery

Next == NextPipe \/ NextQuery

Spec == Init /\ [][Next]_vars

\* some request ended in a transport or HTTP-status error
Failed == \E j \in 1..Len(responses) : responses[j] = "error"

\* the state once a fetch has failed: the failed request is the last one
\* issued and the only one that failed, nothing is in flight, and the
\* exception is on its way up the chain or has ended the consumer's loop
\* (for query.py: has left fetch_live_sports_events, which returns nothing)
AfterFailure ==
    /\ Len(responses) = Len(requests)
    /\ \A j \in 1..Len(responses) : responses[j] = "error" <=> j = Len(responses)
    /\ inflight = <<>>
    /\ pipeline # <<>> =>
          \/ consumer = "crashed"
          \/ consumer = "running" /\ ctl.msg = "raise"
    /\ pipeline = <<>> => query.pc = "raised"

\* C4: a failed page fetch or detail fetch is fatal and not retried: after
\* it no request is issued (so the failed one was issued once), no generator
\* yields a record, the error reaches the consumer, which is never told the
\* stream ended normally, and fetch_live_sports_events returns no list.
C4_FailureIsFatal ==
    /\ [](Failed => AfterFailure)
    /\ [][Failed => /\ requests' = requests
                    /\ yielded' = yielded
                    /\ query' = query]_vars

\* a detail fetch failed after a market had been printed; the consumer's
\* loop ended with the exception and a later next() changed nothing
C4_Witness ==
    /\ Failed
    /\ consumer = "crashed"
    /\ extra = 1
    /\ requests[Len(requests)].url = "detail"
    /\ Len(requests) >= 3
    /\ Len(yielded[6]) >= 1

EventsRequests == {j \in 1..Len(requests) : requests[j].url = "events"}

\* a request carries a cursor only when it is non-empty, the first none
CursorOnlyWhenNonEmpty ==
    \A j \in EventsRequests :
        /\ "cursor" \in DOMAIN requests[j].params => Truthy(requests[j].params["cursor"])
        /\ j = 1 => "cursor" \notin DOMAIN requests[j].params

\* C5 as stated: every request to the events endpoint carries a page-size
\* limit and a status filter, and a cursor only when it is non-empty.
C5_AlwaysLimitAndStatus ==
    /\ \A j \in EventsRequests : {"limit", "status"} \subseteq DOMAIN requests[j].params
    /\ CursorOnlyWhenNonEmpty

\* C5 (amended): the requests of fetch_live_sports_events carry a page-size
\* limit and a status filter; those of fetch_from_events_list carry neither;
\* in both a cursor is carried only when non-empty, and not on the first.
C5_LimitAndStatusInQueryOnly ==
    /\ \A j \in EventsRequests :
          IF pipeline = <<>>
          THEN {"limit", "status"} \subseteq DOMAIN requests[j].params
          ELSE DOMAIN requests[j].params \subseteq {"cursor"}
    /\ CursorOnlyWhenNonEmpty

\* the second page request of a pipeline run: it carries the cursor "abc"
\* and nothing else, the first carried nothing
C5_Witness ==
    /\ pipeline # <<>>
    /\ Len(requests) >= 2
    /\ requests[1].url = "events" /\ DOMAIN requests[1].params = {}
    /\ requests[2].url = "events" /\ DOMAIN requests[2].params = {"cursor"}
    /\ requests[2].params["cursor"] = "abc"

----------------------------------------------------------------------------
(* is_live_game_market on one market                                       *)

Hours(n, d) == (n * MsPerHour) \div d

\* open times: T-1h, T-0.5h (the bound), one millisecond short of it,
\* T-0.1h, and texts that do not parse
OpenTimes ==
    {Ts("seconds", NowT - Hours(1, 1)),
     Ts("seconds", NowT - Hours(1, 2)),
     Ts("fraction", NowT - Hours(1, 2) + 1),
     Ts("fraction", NowT - Hours(1, 10)),
     Ts("offset", NowT - Hours(1, 1)),
     Ts("garbage", 0), Ts("empty", 0)}

\* expiration times: T-1h, one millisecond before T, T (a bound), T+2h,
\* T+4h (a bound), one millisecond past it, and texts that do not parse
ExpTimes ==
    {Ts("seconds", NowT - Hours(1, 1)),
     Ts("fraction", NowT - 1),
     Ts("seconds", NowT),
     Ts("seconds", NowT + Hours(2, 1)),
     Ts("fraction", NowT + Hours(4, 1)),
     Ts("fraction", NowT + Hours(4, 1) + 1),
     Ts("offset", NowT + Hours(2, 1)),
     Ts("garbage", 0), NoneTs}

\* the fallback expiration fields take fewer values
FallbackExpTimes ==
    {Ts("seconds", NowT - Hours(1, 1)),
     Ts("seconds", NowT + Hours(2, 1)),
     Ts("garbage", 0)}

Statuses == {"open", "active", "closed", "OPEN", "Active", None}

Results == {"", "yes"}

\* the market with the given fields, those given as absent left out
Absent == [form |-> "absent", at |-> 0]

MarketWith(status, result, open, e1, e2, e3) ==
    LET all == [status |-> <<status>>, result |-> <<result>>,
                open_time |-> <<open>>, expected_expiration_time |-> <<e1>>,
                latest_expiration_time |-> <<e2>>, expiration_time |-> <<e3>>]
        keep == {k \in DOMAIN all :
                    IF k \in {"status", "result"} THEN all[k][1] # "absent"
                    ELSE all[k][1] # Absent}
    IN  [k \in keep |-> all[k][1]]

LiveMarkets ==
    {MarketWith(st, re, op, e1, e2, e3) :
        st \in Statuses \cup {"absent"}, re \in Results \cup {"absent"},
        op \in OpenTimes \cup {Absent},
        e1 \in ExpTimes \cup {Absent},
        e2 \in FallbackExpTimes \cup {Absent},
        e3 \in FallbackExpTimes \cup {Absent}}

MaxHoursChoices == {DefaultMaxHoursUntilExp, [num |-> 2, den |-> 1]}
MinHoursChoices == {DefaultMinHoursSinceOpen, [num |-> 1, den |-> 1]}

InitLive ==
    /\ InitBase(<<>>, <<>>, NoDetails)
    /\ query = NoQuery
    /\ \E m \in LiveMarkets, mx \in MaxHoursChoices, mn \in MinHoursChoices :
          call = [pc |-> "called", market |-> m, now_utc |-> NowT,
                  max_hours_until_exp |-> mx, min_hours_since_open |-> mn,
                  out |-> Returns(FALSE, NoDatetime, NoDatetime)]

NextLive == CallIsLive

SpecLive == InitLive /\ [][NextLive]_vars

\* the text is in one of the two accepted formats
Parses(ts) == ts.form \in {"seconds", "fraction"}

HasParsing(m, key) == key \in DOMAIN m /\ Parses(m[key])

ExpKeys == <<"expected_expiration_time", "latest_expiration_time", "expiration_time">>

\* the expiration fields that parse, in the order they are tried
ParsingExpKeys(m) == SelectSeq(ExpKeys, LAMBDA k : HasParsing(m, k))

\* the expiration fields that hold a text, in the order they are tried
PresentExpKeys(m) ==
    SelectSeq(ExpKeys, LAMBDA k : k \in DOMAIN m /\ m[k].form \notin {"None", "empty"})

StatusIs(m, S) == "status" \in DOMAIN m /\ m.status \in S

ResultEmpty(m) == "result" \notin DOMAIN m \/ m.result \in {"", None}

\* elapsed since open >= min, and 0 <= remaining <= max, bounds included
WindowHolds(open, exp, now, mx, mn) ==
    /\ (now - open) * mn.den >= mn.num * 3600000
    /\ exp - now >= 0
    /\ (exp - now) * mx.den <= mx.num * 3600000

\* what is_live should return given which statuses count as open
LiveIff(S) ==
    LET m == call.market
    IN  /\ call.out.kind = "return"
        /\ call.out.value <=>
              /\ StatusIs(m, S)
              /\ ResultEmpty(m)
              /\ HasParsing(m, "open_time")
              /\ ParsingExpKeys(m) # <<>>
              /\ WindowHolds(m.open_time.at, m[ParsingExpKeys(m)[1]].at, call.now_utc,
                             call.max_hours_until_exp, call.min_hours_since_open)

Defaults ==
    /\ call.max_hours_until_exp = DefaultMaxHoursUntilExp
    /\ call.min_hours_since_open = DefaultMinHoursSinceOpen

\* the four worked cases of the predicate, T being now
LiveExamples ==
    LET m == call.market
        open == IF HasParsing(m, "open_time") THEN m.open_time.at ELSE -1
        exp == IF ParsingExpKeys(m) # <<>> THEN m[ParsingExpKeys(m)[1]].at ELSE -1
    IN  /\ StatusIs(m, {"closed"}) => ~call.out.value
        /\ Defaults /\ exp = NowT - Hours(1, 1) => ~call.out.value
        /\ Defaults /\ open = NowT - Hours(1, 10) => ~call.out.value
        /\ Defaults /\ StatusIs(m, {"open", "active"}) /\ ResultEmpty(m)
              /\ open = NowT - Hours(1, 1) /\ exp = NowT + Hours(2, 1)
              => call.out.value

\* C8 as stated: is_live is true iff the status is "open" or "active", the
\* result is empty or absent, open and expiration times are parsed and the
\* window holds with both bounds included.
C8_LiveIffExactStatus ==
    call.pc = "returned" => LiveIff({"open", "active"})

\* C8 (amended): the same with the status compared ignoring letter case;
\* and the four worked cases hold.
C8_LiveIffStatusAnyCase ==
    call.pc = "returned" =>
        /\ LiveIff({s \in Statuses : Lower(s) \in {"open", "active"}})
        /\ LiveExamples

\* both bounds met exactly (open = T-0.5h, expiration = T+4h), defaults: true
C8_Witness ==
    /\ call.pc = "returned"
    /\ Defaults
    /\ StatusIs(call.market, {"Active"})
    /\ call.out.open_time.at = NowT - Hours(1, 2)
    /\ call.out.exp.at = NowT + Hours(4, 1)
    /\ call.out.value

\* the market passed the status and result test, so the times were read
TimesRead == StatusIs(call.market, {"open", "active", "OPEN", "Active"})
             /\ ResultEmpty(call.market)

ExpFrom(keys) ==
    IF keys = <<>> THEN NoDatetime
    ELSE IF Parses(call.market[keys[1]])
    THEN [kind |-> "datetime", at |-> call.market[keys[1]].at]
    ELSE NoDatetime

\* C9 as stated: the expiration is that of the first of expected, latest and
\* plain expiration that is present on the market; a later field is used
\* only when every earlier one is absent.
C9_FirstPresentWins ==
    call.pc = "returned" /\ TimesRead =>
        call.out.exp = ExpFrom(PresentExpKeys(call.market))

\* C9 (amended): the expiration is that of the first of the three fields
\* that parses; a later field is used only when every earlier one is
\* absent, null, empty or unparseable; none is obtained when none parses.
C9_FirstParsingWins ==
    call.pc = "returned" /\ TimesRead =>
        call.out.exp = ExpFrom(ParsingExpKeys(call.market))

\* expected-expiration holds an unparseable text, plain expiration T+2h
C9_Witness ==
    /\ call.pc = "returned"
    /\ TimesRead
    /\ "expected_expiration_time" \in DOMAIN call.market
    /\ call.market.expected_expiration_time.form = "offset"
    /\ "latest_expiration_time" \notin DOMAIN call.market
    /\ call.out.exp = [kind |-> "datetime", at |-> NowT + Hours(2, 1)]
    /\ call.out.value

\* C10: is_live never raises; it returns false for every market whose open
\* time is absent, null, empty or in neither accepted format, and for every
\* market none of whose expiration fields yields a time.
C10_UnparseableIsFalse ==
    call.pc = "returned" =>
        /\ call.out.kind = "return"
        /\ ~HasParsing(call.market, "open_time") => ~call.out.value
        /\ ParsingExpKeys(call.market) = <<>> => ~call.out.value

\* an open market whose open time is unparseable text, expiration fine
C10_Witness ==
    /\ call.pc = "returned"
    /\ TimesRead
    /\ "open_time" \in DOMAIN call.market
    /\ call.market.open_time.form = "garbage"
    /\ call.out.exp.kind = "datetime"
    /\ call.out.kind = "return" /\ ~call.out.value

----------------------------------------------------------------------------
(* filter run on a list of events                                          *)

FilterEvents ==
    {Ev("T1", "Sports"), Ev("T2", "Sports"), Ev("T1", "Other"),
     [category |-> "Sports"], [event_ticker |-> "T2"]}

FilterStages ==
    {[kind |-> "filter", pred |-> "is_sports_event"],
     [kind |-> "filter", pred |-> "is_event_ticker", ticker |-> None],
     [kind |-> "filter", pred |-> "is_event_ticker", ticker |-> "T1"]}

InitFilter ==
    \E items \in SeqsUpTo(FilterEvents, MaxItems), st \in FilterStages :
        InitRun(<<[kind |-> "list", items |-> items], st>>, <<>>, NoDetails)

NextFilter ==
    \/ ListNext
    \/ filter
    \/ UpstreamEnded
    \/ ConsumerStep
    \/ ConsumerExtraPull

SpecFilter == InitFilter /\ [][NextFilter]_vars

\* what the predicate of a filter stage answers for an event
Passes(st, e) ==
    IF st.pred = "is_sports_event"
    THEN "category" \in DOMAIN e /\ e.category = "Sports"
    ELSE st.ticker = None \/ ("event_ticker" \in DOMAIN e /\ e.event_ticker = st.ticker)

\* C11: filter never yields an item for which the predicate is false; what
\* it has yielded is a prefix of the items of seq for which the predicate is
\* true, in their original order; fully consumed, it has yielded all of them.
C11_FilterYieldsPassingInOrder ==
    LET want == SelectSeq(pipeline[1].items, LAMBDA e : Passes(pipeline[2], e))
    IN  /\ \A j \in 1..Len(yielded[2]) : Passes(pipeline[2], yielded[2][j])
        /\ IsPrefix(yielded[2], want)
        /\ consumer = "done" => yielded[2] = want

\* is_event_ticker("T1") on <<T2, T1 Sports, T1 Other>>: the last two pass
C11_Witness ==
    /\ consumer = "done"
    /\ pipeline[2] = [kind |-> "filter", pred |-> "is_event_ticker", ticker |-> "T1"]
    /\ pipeline[1].items = <<Ev("T2", "Sports"), Ev("T1", "Sports"), Ev("T1", "Other")>>
    /\ yielded[2] = <<Ev("T1", "Sports"), Ev("T1", "Other")>>

----------------------------------------------------------------------------
(* to_summary run on a list of dicts; the values are strings               *)

SummaryItems ==
    {[x |-> "1"], [y |-> "2"], [x |-> "1", y |-> "2"], [x |-> None], EmptyDict}

FieldMaps ==
    {[a |-> "x", b |-> "y"], [a |-> "y", b |-> "y"], [a |-> "x"], EmptyDict}

InitSummary ==
    \E items \in SeqsUpTo(SummaryItems, MaxItems), fm \in FieldMaps :
        InitRun(<<[kind |-> "list", items |-> items],
                  [kind |-> "to_summary", summary_fields |-> fm]>>, <<>>, NoDetails)

NextSummary ==
    \/ ListNext
    \/ to_summary
    \/ UpstreamEnded
    \/ ConsumerStep
    \/ ConsumerExtraPull

SpecSummary == InitSummary /\ [][NextSummary]_vars

\* C12: to_summary yields one record per input item, in order; its key set
\* is exactly the output keys of the field map, its value at an output key
\* is the item's value at the mapped source key, None when the item lacks
\* that key, and it never raises ({a:x, b:y} on {x:1} gives {a:1, b:None}).
C12_SummaryProjectsEveryItem ==
    LET items == pipeline[1].items
        fm == pipeline[2].summary_fields
    IN  /\ Len(yielded[2]) <= Len(items)
        /\ \A j \in 1..Len(yielded[2]) :
              /\ DOMAIN yielded[2][j] = DOMAIN fm
              /\ \A o \in DOMAIN fm :
                    yielded[2][j][o] =
                        IF fm[o] \in DOMAIN items[j] THEN items[j][fm[o]] ELSE None
              /\ (fm = [a |-> "x", b |-> "y"] /\ items[j] = [x |-> "1"])
                    => yielded[2][j] = [a |-> "1", b |-> None]
        /\ consumer # "crashed"
        /\ consumer = "done" => Len(yielded[2]) = Len(items)

\* {a:x, b:y} has been applied to {x:1} and to {y:2}
C12_Witness ==
    /\ consumer = "done"
    /\ pipeline[2].summary_fields = [a |-> "x", b |-> "y"]
    /\ pipeline[1].items = <<[x |-> "1"], [y |-> "2"]>>
    /\ yielded[2] = <<[a |-> "1", b |-> None], [a |-> None, b |-> "2"]>>

----------------------------------------------------------------------------
(* extract_markets and to_summary chained on a list of events              *)

\* the entries of market_fields that the modelled markets can answer
MarketSummary == [market_ticker |-> "ticker", category |-> "event_category"]

InitFrame ==
    \E items \in SeqsUpTo(ExtractItems, MaxItems) :
        InitRun(<<[kind |-> "list", items |-> items],
                  [kind |-> "extract_markets"],
                  [kind |-> "to_summary", summary_fields |-> MarketSummary]>>,
                <<>>, NoDetails)

NextFrame ==
    \/ ListNext
    \/ extract_markets
    \/ to_summary
    \/ UpstreamEnded
    \/ ConsumerStep
    \/ ConsumerExtraPull

SpecFrame == InitFrame /\ [][NextFrame]_vars

Transformations == {"extract_markets", "to_summary"}

\* C13: extract_markets and to_summary do not mutate a record they received:
\* every received item still has the keys and values it was handed over with
\* (an input market gains no event_category key), and what extract_markets
\* yields is a new record.
C13_ReceivedRecordsUnchanged ==
    \A i \in 1..N :
        Kind(i) \in Transformations =>
            /\ IsPrefix(received[i], yielded[i - 1])
            /\ Kind(i) = "extract_markets" =>
                  /\ frames[i].enriched_market.new
                  /\ \A j \in 1..Len(received[i]) :
                        LET now == MarketsOf(received[i][j])
                            was == MarketsOf(pipeline[1].items[j])
                        IN  /\ Len(now) = Len(was)
                            /\ \A k \in 1..Len(now) : DOMAIN now[k] = DOMAIN was[k]

\* an event whose first market has no event_category key went through both
\* transformations
C13_Witness ==
    /\ consumer = "done"
    /\ pipeline[1].items = <<[category |-> "Sports", markets |-> Markets2]>>
    /\ received[2] = pipeline[1].items
    /\ yielded[2] = <<[ticker |-> "M1", event_category |-> "Sports"],
                      [ticker |-> "M2", event_category |-> "Sports"]>>
    /\ received[3] = yielded[2]
    /\ yielded[3] = <<[market_ticker |-> "M1", category |-> "Sports"],
                      [market_ticker |-> "M2", category |-> "Sports"]>>

----------------------------------------------------------------------------
(* A traversal that is kept running: the generator source under a consumer *)
(* that keeps pulling, or the loop of fetch_live_sports_events. The program *)
(* is sequential, so a step that can be taken is taken; a request ends in  *)
(* a response or in a failure.                                             *)

InitTraversal == InitSource \/ InitQuery

NextTraversal == NextSource \/ NextQuery

SpecTraversal ==
    InitTraversal /\ [][NextTraversal]_vars /\ WF_vars(NextTraversal)

\* the j-th request was a page request answered with a page without cursor
CursorlessAt(j) ==
    /\ requests[j].url = "events"
    /\ responses[j] = "ok"
    /\ ~Truthy(Get(Server(requests[j].params), "cursor", None))

CursorlessReceived == \E j \in 1..Len(responses) : CursorlessAt(j)

Exhausted == consumer = "done" \/ query.pc = "returned"

\* C14: once the API has answered with an absent or empty cursor no page
\* fetch is issued any more, and the traversal ends: the consumer of the
\* generator source gets StopIteration, fetch_live_sports_events returns.
C14_CursorlessEndsTraversal ==
    /\ [](\A j \in 1..Len(responses) : CursorlessAt(j) => Len(requests) = j)
    /\ CursorlessReceived ~> Exhausted

\* a generator traversal of two pages has ended after the cursor-less page
C14_Witness ==
    /\ N = 1
    /\ Len(api) = 2
    /\ Len(responses) = 2 /\ CursorlessAt(2)
    /\ yielded[1] = AllEvents
    /\ consumer = "done"

----------------------------------------------------------------------------
(* Traversals that are invoked again: the generator source dropped by its  *)
(* consumer at any point and called anew, fetch_live_sports_events called  *)
(* again after it returned or raised.                                      *)

RestartEvents == {Ev("T1", "Sports")}

InitRestart ==
    \E a \in ApiOver(RestartEvents, LastCursors) :
        \/ InitRun(<<[kind |-> "source"]>>, a, NoDetails)
        \/ QueryStart(a)

NextRestart ==
    \/ NextSource
    \/ NextQuery
    \/ PipelineRestart
    \/ QueryRestart

SpecRestart == InitRestart /\ [][NextRestart]_vars

\* request j is the first one of an invocation
FirstOfTraversal(j) == \E t \in 1..Len(starts) : starts[t] = j - 1

\* C15: the first page request of every invocation carries no cursor, also
\* when an earlier traversal ended mid-way; every later page request follows
\* a successful response of the same traversal and carries the cursor of
\* that response.
C15_CursorThreadedWithinTraversal ==
    \A j \in 1..Len(requests) :
        IF FirstOfTraversal(j)
        THEN "cursor" \notin DOMAIN requests[j].params
        ELSE /\ responses[j - 1] = "ok"
             /\ "cursor" \in DOMAIN requests[j].params
             /\ "cursor" \in DOMAIN Server(requests[j - 1].params)
             /\ requests[j].params["cursor"] = Server(requests[j - 1].params)["cursor"]

\* a generator traversal was dropped while page 2 was still to come; the
\* next invocation asked for the first page again and then followed its
\* cursor
C15_Witness ==
    /\ N = 1
    /\ starts = <<0, 1>>
    /\ Len(requests) = 3
    /\ "cursor" \in DOMAIN api[1]
    /\ "cursor" \notin DOMAIN requests[2].params
    /\ "cursor" \in DOMAIN requests[3].params

----------------------------------------------------------------------------
(* The assembled pipeline: order of requests and pulls                     *)

\* the requests that have not ended yet
Outstanding == {j \in 1..Len(requests) : j > Len(responses)}

\* the events of the first k pages
EventsOfPages(k) == Flatten([j \in 1..k |-> Get(api[j], "events", <<>>)])

\* C16: in the assembled pipeline at most one HTTP request is outstanding,
\* and it is the one the pipeline waits for; page k+1 is fetched only when
\* every event of page k has been pulled from the source; while the source
\* is asked for its next event no detail fetch is outstanding.
C16_SequentialAndDemandDriven ==
    /\ Cardinality(Outstanding) <= 1
    /\ Outstanding # {} <=> inflight # <<>>
    /\ inflight # <<>> => inflight[1] = requests[Len(requests)]
    /\ pipeline # <<>> =>
          /\ inflight # <<>> => ctl.msg = "http"
          /\ Len(PageFetches) >= 1 =>
                /\ Len(PageFetches) <= Len(api)
                /\ IsPrefix(EventsOfPages(Len(PageFetches) - 1), yielded[1])
          /\ ctl.at = 1 => \A j \in Outstanding : requests[j].url = "events"

\* two pages were fetched, the first holding two events, and a detail fetch
\* lay between two pulls from the source
C16_Witness ==
    /\ pipeline # <<>>
    /\ consumer = "done"
    /\ Len(PageFetches) = 2
    /\ Len(api[1].events) = 2
    /\ \E j \in 1..Len(requests) - 1 :
          requests[j].url = "detail" /\ requests[j + 1].url = "events"

----------------------------------------------------------------------------
(* The assembled pipeline: page fetches once limit has delivered n events  *)

\* limit(n), n >= 1, has yielded its n-th event
LimitReached ==
    /\ pipeline # <<>>
    /\ pipeline[4].limit # NoLimit
    /\ pipeline[4].limit[1] >= 1
    /\ Len(yielded[4]) >= pipeline[4].limit[1]

\* C17: in the assembled pipeline, once the n-th event passing the filters
\* has been delivered by limit, no further page fetch is issued.
C17_NoPageFetchAfterNth ==
    [][LimitReached => PageFetches' = PageFetches]_vars

----------------------------------------------------------------------------
(* The assembled pipeline: detail fetches                                  *)

\* C18: enrich neither caches nor deduplicates: the detail fetches issued so
\* far are, one for one and in order, the events with a non-empty ticker
\* that enrich has taken, a repeated ticker being fetched again; behind
\* limit(n) there are never more than n of them.
C18_OneDetailFetchPerEvent ==
    pipeline # <<>> =>
        LET with == SelectSeq(Taken(5), NonEmptyTicker)
        IN  /\ Len(DetailFetches) = Len(with)
            /\ \A j \in 1..Len(with) : DetailFetches[j].ticker = with[j].event_ticker
            /\ pipeline[4].limit # NoLimit => Len(DetailFetches) <= pipeline[4].limit[1]

\* the API served the event T1 twice and limit(2) let both through: its
\* details were fetched twice
C18_Witness ==
    /\ pipeline # <<>>
    /\ pipeline[4].limit = <<2>>
    /\ consumer = "done"
    /\ Len(DetailFetches) = 2
    /\ DetailFetches[1] = DetailFetches[2]
    /\ Len(responses) = Len(requests)

----------------------------------------------------------------------------
(* fetch_live_sports_events while time passes                              *)

InitResult == InitQuery

NextResult ==
    \/ QueryGet
    \/ QueryResponse
    \/ QueryFailure
    \/ ClockTick

SpecResult == InitResult /\ [][NextResult]_vars

\* the event is a Sports event with a market that is a live game at `now`
LiveSportsAt(e, now) ==
    /\ "category" \in DOMAIN e /\ e.category = "Sports"
    /\ "markets" \in DOMAIN e
    /\ \E k \in 1..Len(e.markets) :
          is_live_game_market(e.markets[k], now, DefaultMaxHoursUntilExp,
                              DefaultMinHoursSinceOpen).value

\* C19: fetch_live_sports_events returns exactly the events of all pages
\* that are Sports events with at least one market live at the instant read
\* before the first page fetch, in the order the API returned them; an
\* event without markets or of another category is never in the result.
C19_ReturnsLiveSportsEvents ==
    LET want == SelectSeq(AllEvents, LAMBDA e : LiveSportsAt(e, NowT))
    IN  query.pc # "none" =>
           /\ query.now_utc = NowT
           /\ IsPrefix(query.sports_events, want)
           /\ query.pc = "returned" => query.sports_events = want
           /\ \A j \in 1..Len(query.sports_events) :
                 /\ query.sports_events[j].category = "Sports"
                 /\ MarketsOf(query.sports_events[j]) # <<>>

\* two pages were read while an hour passed; T3, whose only market became a
\* live game in that hour, was served and is not in the result, T2 is
C19_Witness ==
    /\ query.pc = "returned"
    /\ query.clock = NowT + MsPerHour
    /\ Len(api) = 2
    /\ AllEvents = <<QEv("T3", "Sports", <<EarlyMkt>>), Ev("T5", "Sports"),
                     QEv("T2", "Sports", <<LiveMkt>>)>>
    /\ LiveSportsAt(AllEvents[1], query.clock)
    /\ query.sports_events = <<QEv("T2", "Sports", <<LiveMkt>>)>>

====
